---------------------------- MODULE Spec2Model ----------------------------
(***************************************************************************)
(* ObjectPermissionChecker of django-guardian (guardian/core.py).          *)
(*                                                                         *)
(* One checker instance, bound to one identity, answers has_perm and       *)
(* get_perms against a permission backend (the tables auth_permission,     *)
(* guardian_userobjectpermission, guardian_groupobjectpermission and       *)
(* auth_user_groups) and keeps a per-instance cache _obj_perms_cache.      *)
(* The tables and the flags of the bound user change outside the checker.  *)
(*                                                                         *)
(* A Python list of codenames whose order the SQL leaves open is a bag     *)
(* here: a function from the codenames present to their multiplicity.      *)
(*                                                                         *)
(* last and seen record what the calls returned; scope names the objects,  *)
(* users and groups a run involves and never changes.                      *)
(*                                                                         *)
(* Spec and SpecBoth have one checker whose calls run one at a time.       *)
(* SpecTwo adds a second checker for the same identity; SpecRace has two   *)
(* threads run get_perms on one checker statement by statement.            *)
(***************************************************************************)
EXTENDS Naturals, FiniteSets, Sequences, TLC

VARIABLES
    user,                           \* self.user: NoUser or the User object
    group,                          \* self.group: None or the Group id
    obj_perms_cache,                \* self._obj_perms_cache: key -> bag
    auth_permission,                \* rows of auth_permission
    guardian_userobjectpermission,  \* rows of guardian_userobjectpermission
    guardian_groupobjectpermission, \* rows of guardian_groupobjectpermission
    auth_user_groups,               \* rows of auth_user_groups
    last,                           \* the latest call and its outcome:
                                    \*   op, obj, perm   the call
                                    \*   outcome         "ok" or "error" (raised)
                                    \*   result          what has_perm returned
                                    \*   called          get_perms ran
                                    \*   perms           what get_perms returned
                                    \*   hit             its key was cached
                                    \*   queried         it queried the backend
                                    \*   again           seen held its key before
    seen,                           \* key -> what the first get_perms for it
                                    \* returned, since the flags of the
                                    \* bound user last changed (or the calls
                                    \* turned to this checker)
    scope,                          \* the part of the world a run involves:
                                    \*   objects   the checker is asked about
                                    \*   granted   objects that carry grants
                                    \*   grantees  users and groups granted to
                                    \*   joinable  groups user u1 may join
    instance,                       \* which checker obj_perms_cache and seen
                                    \* belong to: the calls are made on it
    aside,                          \* the other checker for the same identity:
                                    \*   made   it has been constructed
                                    \*   cache  its _obj_perms_cache
    threads,                        \* thread -> where it is in a get_perms
                                    \* it runs statement by statement:
                                    \*   pc       its position
                                    \*   perms    the local variable perms
                                    \*   ret      what it returned
                                    \*   queried  it queried the backend
    writer                          \* the thread that stored into the cache
                                    \* last, or None

vars == <<user, group, obj_perms_cache, auth_permission,
          guardian_userobjectpermission, guardian_groupobjectpermission,
          auth_user_groups, last, seen, scope,
          instance, aside, threads, writer>>

checkers == <<instance, aside>>

callers == <<threads, writer>>

backend == <<auth_permission, guardian_userobjectpermission,
             guardian_groupobjectpermission, auth_user_groups>>

---------------------------------------------------------------------------
(* The universe of the model.                                              *)

\* The most grants (user and group grants together) the tables hold.
MaxGrants == 2

None == "None"

\* self.user when no user is bound (falsy in `if self.user`).
NoUser == [id |-> None, is_active |-> FALSE, is_superuser |-> FALSE]

\* `self.user` taken as a truth value
bound(u) == u.id # None

Users == {"u1", "u2"}

Groups == {"g1", "g2"}

\* The model instances the checker is asked about: one of each content
\* type, sharing primary key 1.
Objects == {[content_type |-> "t1", pk |-> 1], [content_type |-> "t2", pk |-> 1]}

\* The runs with one object asked about.  In the first, grants are made on
\* it and on the object of the other type with the same primary key; in the
\* second, on it and on an object of the same type with another primary
\* key; in both they go to every user and group, u1 may join g1, and g2
\* stays a group u1 is not in.  In the third, grants are made on the one
\* object and go to the groups, both of which u1 may join.
Scopes ==
    {[objects  |-> {[content_type |-> "t1", pk |-> 1]},
      granted  |-> {[content_type |-> "t1", pk |-> 1],
                    [content_type |-> "t2", pk |-> 1]},
      grantees |-> Users \cup Groups,
      joinable |-> {"g1"}],
     [objects  |-> {[content_type |-> "t2", pk |-> 1]},
      granted  |-> {[content_type |-> "t2", pk |-> 1],
                    [content_type |-> "t2", pk |-> 2]},
      grantees |-> Users \cup Groups,
      joinable |-> {"g1"}],
     [objects  |-> {[content_type |-> "t1", pk |-> 1]},
      granted  |-> {[content_type |-> "t1", pk |-> 1]},
      grantees |-> Groups,
      joinable |-> Groups]}

\* The permissions defined per content type ("edit" exists for t1 only).
PermissionRows ==
    {[codename |-> "view", content_type |-> "t1"],
     [codename |-> "edit", content_type |-> "t1"],
     [codename |-> "view", content_type |-> "t2"]}

\* Permission strings handed to has_perm.  A string is the sequence of its
\* dots and of the dotless pieces between them: "app.edit" is
\* <<"app", ".", "edit">>, and no two pieces are adjacent.
PermStrings == {<<"view">>, <<"app", ".", "edit">>}

\* '{1}'.format(obj.pk): the primary key as the text object_pk holds.
format(pk) == IF pk = 1 THEN "1" ELSE IF pk = 2 THEN "2" ELSE "?"

---------------------------------------------------------------------------
(* Bags of codenames.                                                      *)

EmptyList == [c \in {} |-> 0]

\* `c in list`
contains(B, c) == c \in DOMAIN B

\* set(list)
toSet(B) == DOMAIN B

\* The list of row[0] for the rows of a result, rows being distinguished by
\* the joined rows they come from.
codenamesOf(rows) ==
    [c \in {r.codename : r \in rows} |-> Cardinality({r \in rows : r.codename = c})]

\* list(set(list))
distinct(B) == [c \in DOMAIN B |-> 1]

---------------------------------------------------------------------------
(* The backend queries.                                                    *)

\* Faulty variant: the second SELECT without its user_id condition.
query_any_user(obj, content_type, user_id) ==
    LET viaGroups ==
            {[codename |-> t[1].codename, grant |-> t[2], member |-> t[3]] :
                t \in
                    {t \in auth_permission \X guardian_groupobjectpermission
                                           \X auth_user_groups :
                        /\ t[2].permission = t[1]
                        /\ t[3].group = t[2].group
                        /\ t[1].content_type = content_type
                        /\ t[2].object_pk = format(obj.pk)
                        /\ t[3].user = user_id
                        /\ t[2].content_type = t[1].content_type}}
        direct ==
            {[codename |-> t[1].codename, grant |-> t[2]] :
                t \in
                    {t \in auth_permission \X guardian_userobjectpermission :
                        /\ t[2].permission = t[1]
                        /\ t[1].content_type = content_type
                        /\ t[2].object_pk = format(obj.pk)
                        /\ t[2].content_type = t[1].content_type}}
    IN  codenamesOf(viaGroups \cup direct)

\* The custom SQL: group grants through the user's memberships, UNION ALL
\* the user's own grants; one result row per joined row, codename selected.
_execute_normal_user_query(obj, content_type, user_id) ==
    LET viaGroups ==
            {[codename |-> t[1].codename, grant |-> t[2], member |-> t[3]] :
                t \in
                    {t \in auth_permission \X guardian_groupobjectpermission
                                           \X auth_user_groups :
                        /\ t[2].permission = t[1]
                        /\ t[3].group = t[2].group
                        /\ t[1].content_type = content_type
                        /\ t[2].object_pk = format(obj.pk)
                        /\ t[3].user = user_id
                        /\ t[2].content_type = t[1].content_type}}
        direct ==
            {[codename |-> t[1].codename, grant |-> t[2]] :
                t \in
                    {t \in auth_permission \X guardian_userobjectpermission :
                        /\ t[2].permission = t[1]
                        /\ t[1].content_type = content_type
                        /\ t[2].object_pk = format(obj.pk)
                        /\ t[2].user = user_id
                        /\ t[2].content_type = t[1].content_type}}
    IN  codenamesOf(viaGroups \cup direct)

\* Faulty variant: every permission, whatever its content type.
all_permissions_any_type(ctype) ==
    codenamesOf({[codename |-> p.codename, row |-> p] : p \in auth_permission})

\* Permission.objects.filter(content_type=ctype).values_list("codename")
all_permissions_query(ctype) ==
    codenamesOf({[codename |-> p.codename, row |-> p] :
                    p \in {q \in auth_permission : q.content_type = ctype}})

\* Faulty variant: the permission's content type is not filtered.
group_query_any_type(obj, ctype, grp) ==
    codenamesOf(
        {[codename |-> t[1].codename, grant |-> t[2]] :
            t \in
                {t \in auth_permission \X guardian_groupobjectpermission :
                    /\ t[2].permission = t[1]
                    /\ t[2].content_type = t[1].content_type
                    /\ t[2].group = grp
                    /\ t[2].object_pk = format(obj.pk)}})

\* Faulty variant: no group bound means no filter on the group.
group_query_none_is_any(obj, ctype, grp) ==
    codenamesOf(
        {[codename |-> t[1].codename, grant |-> t[2]] :
            t \in
                {t \in auth_permission \X guardian_groupobjectpermission :
                    /\ t[1].content_type = ctype
                    /\ t[2].permission = t[1]
                    /\ t[2].content_type = t[1].content_type
                    /\ (grp = None \/ t[2].group = grp)
                    /\ t[2].object_pk = format(obj.pk)}})

\* Permission.objects.filter(content_type=ctype).filter(
\*     groupobjectpermission__content_type=F('content_type'),
\*     groupobjectpermission__group=self.group,
\*     groupobjectpermission__object_pk=obj.pk).values_list("codename")
group_permissions_query(obj, ctype, grp) ==
    codenamesOf(
        {[codename |-> t[1].codename, grant |-> t[2]] :
            t \in
                {t \in auth_permission \X guardian_groupobjectpermission :
                    /\ t[1].content_type = ctype
                    /\ t[2].permission = t[1]
                    /\ t[2].content_type = t[1].content_type
                    /\ t[2].group = grp
                    /\ t[2].object_pk = format(obj.pk)}})

---------------------------------------------------------------------------
(* The checker.                                                            *)

\* guardian.utils.get_identity: the (user, group) pair of the argument.
get_identity(user_or_group) ==
    IF user_or_group.kind = "user" THEN <<user_or_group.user, None>>
    ELSE IF user_or_group.kind = "group" THEN <<NoUser, user_or_group.group>>
    ELSE <<NoUser, None>>

\* ContentType.objects.get_for_model(obj)
get_for_model(obj) == obj.content_type

\* Faulty variant: the key is the primary key alone.
key_by_pk(obj) == <<None, obj.pk>>

get_local_cache_key(obj) == <<get_for_model(obj), obj.pk>>

\* Faulty variant: an entry that exists is kept (dict.setdefault).
store_if_absent(cache, key, perms) ==
    [k \in DOMAIN cache \cup {key} |->
        IF k \in DOMAIN cache THEN cache[k] ELSE perms]

\* self._obj_perms_cache[key] = perms
store(cache, key, perms) ==
    [k \in DOMAIN cache \cup {key} |-> IF k = key THEN perms ELSE cache[k]]

\* The three branches of get_perms that ask the backend.
fetch_perms(obj) ==
    LET ctype == get_for_model(obj)
    IN  IF bound(user) /\ user.is_superuser
            THEN all_permissions_query(ctype)
        ELSE IF bound(user)
            THEN _execute_normal_user_query(obj, ctype, user.id)
        ELSE distinct(group_permissions_query(obj, ctype, group))

\* Faulty variant: the cache is not consulted.
get_perms_refetch(obj, db_ok) ==
    LET key == get_local_cache_key(obj)
    IN  IF bound(user) /\ ~user.is_active
            THEN [outcome |-> "ok", perms |-> EmptyList,
                  cache |-> obj_perms_cache, hit |-> FALSE, queried |-> FALSE]
        ELSE IF ~db_ok
            THEN [outcome |-> "error", perms |-> EmptyList,
                  cache |-> obj_perms_cache, hit |-> FALSE, queried |-> TRUE]
        ELSE [outcome |-> "ok", perms |-> fetch_perms(obj),
              cache |-> store(obj_perms_cache, key, fetch_perms(obj)),
              hit |-> FALSE, queried |-> TRUE]

\* Faulty variant: the empty list of an inactive user is stored in the cache.
get_perms_caching_inactive(obj, db_ok) ==
    LET key == get_local_cache_key(obj)
    IN  IF key \in DOMAIN obj_perms_cache
            THEN [outcome |-> "ok", perms |-> obj_perms_cache[key],
                  cache |-> obj_perms_cache, hit |-> TRUE, queried |-> FALSE]
        ELSE IF bound(user) /\ ~user.is_active
            THEN [outcome |-> "ok", perms |-> EmptyList,
                  cache |-> store(obj_perms_cache, key, EmptyList),
                  hit |-> FALSE, queried |-> FALSE]
        ELSE IF ~db_ok
            THEN [outcome |-> "error", perms |-> EmptyList,
                  cache |-> obj_perms_cache, hit |-> FALSE, queried |-> TRUE]
        ELSE [outcome |-> "ok", perms |-> fetch_perms(obj),
              cache |-> store(obj_perms_cache, key, fetch_perms(obj)),
              hit |-> FALSE, queried |-> TRUE]

\* Faulty variant: is_active is not looked at.
get_perms_ignoring_active(obj, db_ok) ==
    LET key == get_local_cache_key(obj)
    IN  IF key \in DOMAIN obj_perms_cache
            THEN [outcome |-> "ok", perms |-> obj_perms_cache[key],
                  cache |-> obj_perms_cache, hit |-> TRUE, queried |-> FALSE]
        ELSE IF ~db_ok
            THEN [outcome |-> "error", perms |-> EmptyList,
                  cache |-> obj_perms_cache, hit |-> FALSE, queried |-> TRUE]
        ELSE [outcome |-> "ok", perms |-> fetch_perms(obj),
              cache |-> store(obj_perms_cache, key, fetch_perms(obj)),
              hit |-> FALSE, queried |-> TRUE]

\* Faulty variant: a raising backend is taken for "no permissions", and the
\* empty list is cached.
get_perms_swallowing(obj, db_ok) ==
    LET key == get_local_cache_key(obj)
    IN  IF key \in DOMAIN obj_perms_cache
            THEN [outcome |-> "ok", perms |-> obj_perms_cache[key],
                  cache |-> obj_perms_cache, hit |-> TRUE, queried |-> FALSE]
        ELSE IF bound(user) /\ ~user.is_active
            THEN [outcome |-> "ok", perms |-> EmptyList,
                  cache |-> obj_perms_cache, hit |-> FALSE, queried |-> FALSE]
        ELSE IF ~db_ok
            THEN [outcome |-> "ok", perms |-> EmptyList,
                  cache |-> store(obj_perms_cache, key, EmptyList),
                  hit |-> FALSE, queried |-> TRUE]
        ELSE [outcome |-> "ok", perms |-> fetch_perms(obj),
              cache |-> store(obj_perms_cache, key, fetch_perms(obj)),
              hit |-> FALSE, queried |-> TRUE]

\* Faulty variant: is_active and is_superuser are looked at before the
\* cache, which serves the other identities only.
get_perms_flags_first(obj, db_ok) ==
    LET key == get_local_cache_key(obj)
    IN  IF bound(user) /\ ~user.is_active
            THEN [outcome |-> "ok", perms |-> EmptyList,
                  cache |-> obj_perms_cache, hit |-> FALSE, queried |-> FALSE]
        ELSE IF key \in DOMAIN obj_perms_cache
                /\ ~(bound(user) /\ user.is_superuser)
            THEN [outcome |-> "ok", perms |-> obj_perms_cache[key],
                  cache |-> obj_perms_cache, hit |-> TRUE, queried |-> FALSE]
        ELSE IF ~db_ok
            THEN [outcome |-> "error", perms |-> EmptyList,
                  cache |-> obj_perms_cache, hit |-> FALSE, queried |-> TRUE]
        ELSE [outcome |-> "ok", perms |-> fetch_perms(obj),
              cache |-> store(obj_perms_cache, key, fetch_perms(obj)),
              hit |-> FALSE, queried |-> TRUE]

\* Faulty variant: on a miss is_superuser is tested before is_active.
get_perms_superuser_first(obj, db_ok) ==
    LET key == get_local_cache_key(obj)
    IN  IF key \in DOMAIN obj_perms_cache
            THEN [outcome |-> "ok", perms |-> obj_perms_cache[key],
                  cache |-> obj_perms_cache, hit |-> TRUE, queried |-> FALSE]
        ELSE IF bound(user) /\ ~user.is_active /\ ~user.is_superuser
            THEN [outcome |-> "ok", perms |-> EmptyList,
                  cache |-> obj_perms_cache, hit |-> FALSE, queried |-> FALSE]
        ELSE IF ~db_ok
            THEN [outcome |-> "error", perms |-> EmptyList,
                  cache |-> obj_perms_cache, hit |-> FALSE, queried |-> TRUE]
        ELSE [outcome |-> "ok", perms |-> fetch_perms(obj),
              cache |-> store(obj_perms_cache, key, fetch_perms(obj)),
              hit |-> FALSE, queried |-> TRUE]

\* Faulty variant: a cached empty list is taken for a missing entry.
get_perms_refilling_empty(obj, db_ok) ==
    LET key == get_local_cache_key(obj)
    IN  IF key \in DOMAIN obj_perms_cache /\ obj_perms_cache[key] # EmptyList
            THEN [outcome |-> "ok", perms |-> obj_perms_cache[key],
                  cache |-> obj_perms_cache, hit |-> TRUE, queried |-> FALSE]
        ELSE IF bound(user) /\ ~user.is_active
            THEN [outcome |-> "ok", perms |-> EmptyList,
                  cache |-> obj_perms_cache, hit |-> FALSE, queried |-> FALSE]
        ELSE IF ~db_ok
            THEN [outcome |-> "error", perms |-> EmptyList,
                  cache |-> obj_perms_cache, hit |-> FALSE, queried |-> TRUE]
        ELSE [outcome |-> "ok", perms |-> fetch_perms(obj),
              cache |-> store(obj_perms_cache, key, fetch_perms(obj)),
              hit |-> FALSE, queried |-> TRUE]

\* get_perms(obj) run with the backend answering (db_ok) or raising: the
\* outcome, the list returned, the cache afterwards, whether the key was in
\* the cache and whether a backend query was issued.
get_perms(obj, db_ok) ==
    LET key == get_local_cache_key(obj)
    IN  IF key \in DOMAIN obj_perms_cache
            THEN [outcome |-> "ok", perms |-> obj_perms_cache[key],
                  cache |-> obj_perms_cache, hit |-> TRUE, queried |-> FALSE]
        ELSE IF bound(user) /\ ~user.is_active
            THEN [outcome |-> "ok", perms |-> EmptyList,
                  cache |-> obj_perms_cache, hit |-> FALSE, queried |-> FALSE]
        ELSE IF ~db_ok
            THEN [outcome |-> "error", perms |-> EmptyList,
                  cache |-> obj_perms_cache, hit |-> FALSE, queried |-> TRUE]
        ELSE [outcome |-> "ok", perms |-> fetch_perms(obj),
              cache |-> store(obj_perms_cache, key, fetch_perms(obj)),
              hit |-> FALSE, queried |-> TRUE]

\* str.split('.'): the segments between the dots, of which there is always
\* at least one; a segment is empty where the string begins or ends with a
\* dot or has two dots in a row.
RECURSIVE split(_)
split(str) ==
    IF str = << >>
        THEN << << >> >>
    ELSE LET rest == split(Tail(str))
         IN  IF Head(str) = "."
                 THEN << << >> >> \o rest
             ELSE << <<Head(str)>> \o rest[1] >> \o Tail(rest)

\* A segment as the string it is: empty, or its one piece.
text(segment) == IF segment = << >> THEN "" ELSE segment[1]

\* Faulty variant: the segment before the first dot is taken.
codename_first(perm) == text(split(perm)[1])

\* perm.split('.')[-1]
codename_of(perm) == text(split(perm)[Len(split(perm))])

\* The call has_perm makes nothing of: no get_perms, the cache as it was.
not_called ==
    [outcome |-> "ok", perms |-> EmptyList, cache |-> obj_perms_cache,
     hit |-> FALSE, queried |-> FALSE]

\* Faulty variant: is_superuser is tested before is_active.
has_perm_superuser_first(perm, obj, db_ok) ==
    LET codename == codename_of(perm)
        inner    == get_perms(obj, db_ok)
    IN  IF bound(user) /\ user.is_superuser
            THEN [outcome |-> "ok", result |-> TRUE, called |-> FALSE,
                  inner |-> not_called]
        ELSE IF bound(user) /\ ~user.is_active
            THEN [outcome |-> "ok", result |-> FALSE, called |-> FALSE,
                  inner |-> not_called]
        ELSE [outcome |-> inner.outcome,
              result |-> inner.outcome = "ok" /\ contains(inner.perms, codename),
              called |-> TRUE, inner |-> inner]

\* Faulty variant: for a superuser get_perms is run all the same, before
\* True is returned.
has_perm_superuser_asking(perm, obj, db_ok) ==
    LET codename == codename_of(perm)
        inner    == get_perms(obj, db_ok)
    IN  IF bound(user) /\ ~user.is_active
            THEN [outcome |-> "ok", result |-> FALSE, called |-> FALSE,
                  inner |-> not_called]
        ELSE IF bound(user) /\ user.is_superuser
            THEN [outcome |-> inner.outcome, result |-> inner.outcome = "ok",
                  called |-> TRUE, inner |-> inner]
        ELSE [outcome |-> inner.outcome,
              result |-> inner.outcome = "ok" /\ contains(inner.perms, codename),
              called |-> TRUE, inner |-> inner]

\* Faulty variant: the list get_perms returns is tested for being non-empty
\* instead of for holding the codename.
has_perm_any(perm, obj, db_ok) ==
    LET codename == codename_of(perm)
        inner    == get_perms(obj, db_ok)
    IN  IF bound(user) /\ ~user.is_active
            THEN [outcome |-> "ok", result |-> FALSE, called |-> FALSE,
                  inner |-> not_called]
        ELSE IF bound(user) /\ user.is_superuser
            THEN [outcome |-> "ok", result |-> TRUE, called |-> FALSE,
                  inner |-> not_called]
        ELSE [outcome |-> inner.outcome,
              result |-> inner.outcome = "ok" /\ inner.perms # EmptyList,
              called |-> TRUE, inner |-> inner]

\* has_perm(perm, obj): the outcome, the boolean returned, and the inner
\* get_perms call when the short cuts did not apply (called).
has_perm(perm, obj, db_ok) ==
    LET codename == codename_of(perm)
        inner    == get_perms(obj, db_ok)
    IN  IF bound(user) /\ ~user.is_active
            THEN [outcome |-> "ok", result |-> FALSE, called |-> FALSE,
                  inner |-> not_called]
        ELSE IF bound(user) /\ user.is_superuser
            THEN [outcome |-> "ok", result |-> TRUE, called |-> FALSE,
                  inner |-> not_called]
        ELSE [outcome |-> inner.outcome,
              result |-> inner.outcome = "ok" /\ contains(inner.perms, codename),
              called |-> TRUE, inner |-> inner]

---------------------------------------------------------------------------
(* Construction.                                                           *)

\* What a checker can be constructed for: a user (with any flags), a
\* group, or nothing (the anonymous marker).
Identities ==
    {[kind |-> "user", group |-> None,
      user |-> [id |-> "u1", is_active |-> a, is_superuser |-> s]] :
        a \in BOOLEAN, s \in BOOLEAN}
    \cup {[kind |-> "group", group |-> "g1", user |-> NoUser],
          [kind |-> "anonymous", group |-> None, user |-> NoUser]}

\* The checker that has not been constructed.
NotMade == [made |-> FALSE, cache |-> EmptyList]

\* The threads that may call get_perms on the one checker at once.
Threads == {"A", "B"}

\* A thread that has not called get_perms.
Idle == [pc |-> "idle", perms |-> EmptyList, ret |-> EmptyList,
         queried |-> FALSE]

NoCall ==
    [op |-> "none", obj |-> [content_type |-> None, pk |-> 0], perm |-> << >>,
     outcome |-> "ok", perms |-> EmptyList, result |-> FALSE,
     called |-> FALSE, again |-> FALSE, hit |-> FALSE, queried |-> FALSE]

\* __init__: the identity is resolved and the cache is empty.  Nothing is
\* granted yet; user u2 is a member of group g2 throughout.
Construct ==
    /\ \E user_or_group \in Identities :
            /\ user = get_identity(user_or_group)[1]
            /\ group = get_identity(user_or_group)[2]
    /\ obj_perms_cache = EmptyList
    /\ auth_permission = PermissionRows
    /\ guardian_userobjectpermission = {}
    /\ guardian_groupobjectpermission = {}
    /\ auth_user_groups = {[user |-> "u2", group |-> "g2"]}
    /\ last = NoCall
    /\ seen = EmptyList
    /\ instance = "first"
    /\ aside = NotMade
    /\ threads = [t \in Threads |-> Idle]
    /\ writer = None

\* The checker is asked about one object.
Init ==
    /\ Construct
    /\ scope \in Scopes

\* The checker is asked about both objects; grants are made on these two
\* and go to u1 and g1 only.
InitBoth ==
    /\ Construct
    /\ scope = [objects |-> Objects, granted |-> Objects,
                grantees |-> {"u1", "g1"}, joinable |-> {"g1"}]

---------------------------------------------------------------------------
(* Calls on the checker.                                                   *)

\* The first list get_perms returned for each key since the flags of the
\* bound user last changed.
remember(call, obj) ==
    LET key == get_local_cache_key(obj)
    IN  IF call.outcome = "ok" /\ key \notin DOMAIN seen
            THEN store(seen, key, call.perms)
            ELSE seen

\* Faulty variant: what a bound user is found to hold is saved as grants
\* made to that user.
GetPerms_saving(obj) ==
    \E db_ok \in BOOLEAN :
        LET call == get_perms(obj, db_ok)
            rows == {[permission |-> p, content_type |-> obj.content_type,
                      object_pk |-> format(obj.pk), user |-> user.id] :
                        p \in {r \in auth_permission :
                                    /\ r.content_type = obj.content_type
                                    /\ contains(call.perms, r.codename)}}
        IN  /\ obj_perms_cache' = call.cache
            /\ last' = [op |-> "get_perms", obj |-> obj, perm |-> << >>,
                        outcome |-> call.outcome, perms |-> call.perms,
                        result |-> FALSE, called |-> TRUE,
                        again |-> get_local_cache_key(obj) \in DOMAIN seen,
                        hit |-> call.hit, queried |-> call.queried]
            /\ seen' = remember(call, obj)
            /\ guardian_userobjectpermission' =
                    IF bound(user)
                        THEN guardian_userobjectpermission \cup rows
                        ELSE guardian_userobjectpermission
            /\ UNCHANGED <<user, group, auth_permission,
                           guardian_groupobjectpermission, auth_user_groups,
                           scope, checkers, callers>>

GetPerms(obj) ==
    \E db_ok \in BOOLEAN :
        LET call == get_perms(obj, db_ok)
        IN  /\ obj_perms_cache' = call.cache
            /\ last' = [op |-> "get_perms", obj |-> obj, perm |-> << >>,
                        outcome |-> call.outcome, perms |-> call.perms,
                        result |-> FALSE, called |-> TRUE,
                        again |-> get_local_cache_key(obj) \in DOMAIN seen,
                        hit |-> call.hit, queried |-> call.queried]
            /\ seen' = remember(call, obj)
            /\ UNCHANGED <<user, group, backend, scope, checkers, callers>>

HasPerm(perm, obj) ==
    \E db_ok \in BOOLEAN :
        LET call == has_perm(perm, obj, db_ok)
        IN  /\ obj_perms_cache' = call.inner.cache
            /\ last' = [op |-> "has_perm", obj |-> obj, perm |-> perm,
                        outcome |-> call.outcome, perms |-> call.inner.perms,
                        result |-> call.result, called |-> call.called,
                        again |-> call.called
                                  /\ get_local_cache_key(obj) \in DOMAIN seen,
                        hit |-> call.inner.hit, queried |-> call.inner.queried]
            /\ seen' = IF call.called THEN remember(call.inner, obj) ELSE seen
            /\ UNCHANGED <<user, group, backend, scope, checkers, callers>>

---------------------------------------------------------------------------
(* What happens outside the checker.  Each step forgets the latest call,   *)
(* so that last always describes a call made in the present state of the   *)
(* backend and of the user's flags.                                        *)

grants == Cardinality(guardian_userobjectpermission)
            + Cardinality(guardian_groupobjectpermission)

\* A UserObjectPermission row is saved; guardian takes content_type and
\* object_pk from the object, and the permission is one of its type.
AssignUserPerm(p, o, u) ==
    LET row == [permission |-> p, content_type |-> o.content_type,
                object_pk |-> format(o.pk), user |-> u]
    IN  /\ p.content_type = o.content_type
        /\ row \notin guardian_userobjectpermission
        /\ grants < MaxGrants
        /\ guardian_userobjectpermission' = guardian_userobjectpermission \cup {row}
        /\ last' = NoCall
        /\ UNCHANGED <<user, group, obj_perms_cache, auth_permission,
                       guardian_groupobjectpermission, auth_user_groups,
                       seen, scope, checkers, callers>>

RemoveUserPerm(row) ==
    /\ guardian_userobjectpermission' = guardian_userobjectpermission \ {row}
    /\ last' = NoCall
    /\ UNCHANGED <<user, group, obj_perms_cache, auth_permission,
                   guardian_groupobjectpermission, auth_user_groups,
                   seen, scope, checkers, callers>>

AssignGroupPerm(p, o, g) ==
    LET row == [permission |-> p, content_type |-> o.content_type,
                object_pk |-> format(o.pk), group |-> g]
    IN  /\ p.content_type = o.content_type
        /\ row \notin guardian_groupobjectpermission
        /\ grants < MaxGrants
        /\ guardian_groupobjectpermission' = guardian_groupobjectpermission \cup {row}
        /\ last' = NoCall
        /\ UNCHANGED <<user, group, obj_perms_cache, auth_permission,
                       guardian_userobjectpermission, auth_user_groups,
                       seen, scope, checkers, callers>>

RemoveGroupPerm(row) ==
    /\ guardian_groupobjectpermission' = guardian_groupobjectpermission \ {row}
    /\ last' = NoCall
    /\ UNCHANGED <<user, group, obj_perms_cache, auth_permission,
                   guardian_userobjectpermission, auth_user_groups,
                   seen, scope, checkers, callers>>

\* User u1 joins group g.
JoinGroup(g) ==
    /\ [user |-> "u1", group |-> g] \notin auth_user_groups
    /\ auth_user_groups' = auth_user_groups \cup {[user |-> "u1", group |-> g]}
    /\ last' = NoCall
    /\ UNCHANGED <<user, group, obj_perms_cache, auth_permission,
                   guardian_userobjectpermission,
                   guardian_groupobjectpermission, seen, scope, checkers, callers>>

\* User u1 leaves group g.
LeaveGroup(g) ==
    /\ [user |-> "u1", group |-> g] \in auth_user_groups
    /\ auth_user_groups' = auth_user_groups \ {[user |-> "u1", group |-> g]}
    /\ last' = NoCall
    /\ UNCHANGED <<user, group, obj_perms_cache, auth_permission,
                   guardian_userobjectpermission,
                   guardian_groupobjectpermission, seen, scope, checkers, callers>>

\* is_active or is_superuser of the bound user object is changed.
SetUserFlags(active, superuser) ==
    /\ bound(user)
    /\ user' = [user EXCEPT !.is_active = active, !.is_superuser = superuser]
    /\ user' # user
    /\ last' = NoCall
    /\ seen' = EmptyList
    /\ UNCHANGED <<group, obj_perms_cache, backend, scope, checkers, callers>>

Next ==
    \/ \E obj \in scope.objects : GetPerms(obj)
    \/ \E perm \in PermStrings, obj \in scope.objects : HasPerm(perm, obj)
    \/ \E p \in auth_permission, o \in scope.granted,
          u \in Users \cap scope.grantees :
            AssignUserPerm(p, o, u)
    \/ \E row \in guardian_userobjectpermission : RemoveUserPerm(row)
    \/ \E p \in auth_permission, o \in scope.granted,
          g \in Groups \cap scope.grantees :
            AssignGroupPerm(p, o, g)
    \/ \E row \in guardian_groupobjectpermission : RemoveGroupPerm(row)
    \/ \E g \in scope.joinable : JoinGroup(g)
    \/ \E g \in Groups : LeaveGroup(g)
    \/ \E a \in BOOLEAN, s \in BOOLEAN : SetUserFlags(a, s)

Spec == Init /\ [][Next]_vars

SpecBoth == InitBoth /\ [][Next]_vars

---------------------------------------------------------------------------
(* Two checkers for one identity.  The variables obj_perms_cache and seen  *)
(* are those of the checker the calls are made on; the cache of the other  *)
(* one is kept in aside.                                                   *)

\* Faulty variant: the dict is one object shared by the instances of the
\* class.
class_obj_perms_cache(others) == others

\* self._obj_perms_cache = {} in __init__: a dict of the instance's own,
\* empty whatever the dict of another instance holds.
new_obj_perms_cache(others) == EmptyList

\* ObjectPermissionChecker(user_or_group) once more, for the same identity;
\* the calls are made on the new checker from now on.
NewChecker ==
    /\ ~aside.made
    /\ aside' = [made |-> TRUE, cache |-> obj_perms_cache]
    /\ obj_perms_cache' = new_obj_perms_cache(obj_perms_cache)
    /\ instance' = "second"
    /\ last' = NoCall
    /\ seen' = EmptyList
    /\ UNCHANGED <<user, group, backend, scope, callers>>

\* The calls are made on the other checker from now on.
Turn ==
    /\ aside.made
    /\ aside' = [made |-> TRUE, cache |-> obj_perms_cache]
    /\ obj_perms_cache' = aside.cache
    /\ instance' = IF instance = "first" THEN "second" ELSE "first"
    /\ last' = NoCall
    /\ seen' = EmptyList
    /\ UNCHANGED <<user, group, backend, scope, callers>>

\* Both checkers are asked about one object; grants are made on it and go
\* to u1 and g1.
InitTwo ==
    /\ Construct
    /\ scope = [objects  |-> {[content_type |-> "t1", pk |-> 1]},
                granted  |-> {[content_type |-> "t1", pk |-> 1]},
                grantees |-> {"u1", "g1"}, joinable |-> {"g1"}]

NextTwo ==
    \/ Next
    \/ NewChecker
    \/ Turn

SpecTwo == InitTwo /\ [][NextTwo]_vars

---------------------------------------------------------------------------
(* Two threads in get_perms(obj) on one checker.  A thread runs the method *)
(* statement by statement; the test of the dict, the assignment to it and  *)
(* the read of it are each one step, and the other thread and the grants   *)
(* may move between any two of them.                                       *)

\* `if not key in self._obj_perms_cache:` and, on a miss, the test of
\* is_active, which returns [] at once.
Test(t, obj) ==
    /\ threads[t].pc = "idle"
    /\ threads' = [threads EXCEPT ![t].pc =
            IF get_local_cache_key(obj) \in DOMAIN obj_perms_cache
                THEN "return"
            ELSE IF bound(user) /\ ~user.is_active
                THEN "done"
            ELSE "query"]
    /\ UNCHANGED <<user, group, obj_perms_cache, backend, last, seen, scope,
                   checkers, writer>>

\* The query of the branch the identity selects, into the local perms; or
\* the backend raises and the thread leaves the method.
Query(t, obj) ==
    /\ threads[t].pc = "query"
    /\ \E db_ok \in BOOLEAN :
            threads' = [threads EXCEPT ![t] =
                IF db_ok
                    THEN [pc |-> "store", perms |-> fetch_perms(obj),
                          ret |-> EmptyList, queried |-> TRUE]
                    ELSE [pc |-> "raised", perms |-> EmptyList,
                          ret |-> EmptyList, queried |-> TRUE]]
    /\ UNCHANGED <<user, group, obj_perms_cache, backend, last, seen, scope,
                   checkers, writer>>

\* self._obj_perms_cache[key] = perms
Store(t, obj) ==
    /\ threads[t].pc = "store"
    /\ obj_perms_cache' = store(obj_perms_cache, get_local_cache_key(obj),
                                threads[t].perms)
    /\ writer' = t
    /\ threads' = [threads EXCEPT ![t].pc = "return"]
    /\ UNCHANGED <<user, group, backend, last, seen, scope, checkers>>

\* return self._obj_perms_cache[key]
Return(t, obj) ==
    /\ threads[t].pc = "return"
    /\ threads' = [threads EXCEPT
            ![t].pc = "done",
            ![t].ret = obj_perms_cache[get_local_cache_key(obj)]]
    /\ UNCHANGED <<user, group, obj_perms_cache, backend, last, seen, scope,
                   checkers, writer>>

\* Both threads ask about one object; grants on it are made to and taken
\* from user u1 while they run.
InitRace ==
    /\ Construct
    /\ scope = [objects  |-> {[content_type |-> "t1", pk |-> 1]},
                granted  |-> {[content_type |-> "t1", pk |-> 1]},
                grantees |-> {"u1"}, joinable |-> {}]

NextRace ==
    \/ \E t \in Threads, obj \in scope.objects : Test(t, obj)
    \/ \E t \in Threads, obj \in scope.objects : Query(t, obj)
    \/ \E t \in Threads, obj \in scope.objects : Store(t, obj)
    \/ \E t \in Threads, obj \in scope.objects : Return(t, obj)
    \/ \E p \in auth_permission, o \in scope.granted,
          u \in Users \cap scope.grantees :
            AssignUserPerm(p, o, u)
    \/ \E row \in guardian_userobjectpermission : RemoveUserPerm(row)

SpecRace == InitRace /\ [][NextRace]_vars

---------------------------------------------------------------------------
(* The vocabulary of the properties: what is defined and granted, read off *)
(* the tables row by row, and the identity the checker is bound to.        *)

\* The cache key of an object: its type and its primary key.
key_of(o) == <<o.content_type, o.pk>>

\* The codenames defined for a content type.
defined(ctype) ==
    {p.codename : p \in {q \in auth_permission : q.content_type = ctype}}

\* Codename c of o's type is granted on o to user u directly.
granted_to_user(c, o, u) ==
    \E g \in guardian_userobjectpermission :
        /\ g.permission = [codename |-> c, content_type |-> o.content_type]
        /\ g.content_type = o.content_type
        /\ g.object_pk = format(o.pk)
        /\ g.user = u

\* Codename c of o's type is granted on o to group grp.
granted_to_group(c, o, grp) ==
    \E g \in guardian_groupobjectpermission :
        /\ g.permission = [codename |-> c, content_type |-> o.content_type]
        /\ g.content_type = o.content_type
        /\ g.object_pk = format(o.pk)
        /\ g.group = grp

member(u, grp) == [user |-> u, group |-> grp] \in auth_user_groups

\* What user u holds on o: directly or through a group u belongs to.
user_holds(o, u) ==
    {c \in defined(o.content_type) :
        \/ granted_to_user(c, o, u)
        \/ \E grp \in Groups : member(u, grp) /\ granted_to_group(c, o, grp)}

\* What group grp holds on o.
group_holds(o, grp) ==
    {c \in defined(o.content_type) : granted_to_group(c, o, grp)}

inactive == bound(user) /\ ~user.is_active

superuser == bound(user) /\ user.is_superuser

ordinary == bound(user) /\ user.is_active /\ ~user.is_superuser

group_only == ~bound(user) /\ group # None

anonymous == ~bound(user) /\ group = None

\* What the bound identity holds on o, by the kind of identity.
holds(o) ==
    IF inactive THEN {}
    ELSE IF superuser THEN defined(o.content_type)
    ELSE IF ordinary THEN user_holds(o, user.id)
    ELSE group_holds(o, group)

\* The latest call was get_perms, or a has_perm that reached get_perms, and
\* it returned.
returned == last.called /\ last.outcome = "ok"

no_duplicates(B) == \A c \in DOMAIN B : B[c] = 1

---------------------------------------------------------------------------
(* The properties.                                                         *)

\* C1: once get_perms has returned for an object, every later get_perms
\* for it on this checker returns the identical list and queries nothing,
\* whatever was granted or revoked and whoever joined or left a group in
\* between.  (seen starts afresh when is_active or is_superuser of the bound
\* user changes: the claim is about changes of the grants.)
C1_StaleCacheServed ==
    (last.called /\ last.again) =>
        /\ last.outcome = "ok"
        /\ last.perms = seen[key_of(last.obj)]
        /\ ~last.queried

\* C1 witness: a repeated get_perms of an ordinary user returns a list that
\* is no longer what the user holds.
C1_Witness ==
    /\ last.op = "get_perms" /\ last.again /\ ordinary
    /\ toSet(last.perms) # user_holds(last.obj, user.id)

\* C2: for an active, non-superuser user a get_perms that misses the cache
\* returns, as a set, exactly the codenames of the object's type granted on
\* the object to the user or to a group the user belongs to.
C2_UserPermsAreUnion ==
    (returned /\ ~last.hit /\ ordinary) =>
        toSet(last.perms) = user_holds(last.obj, user.id)

\* C2 witness: "edit" granted directly and "view" through a group give
\* {"edit", "view"}.
C2_Witness ==
    /\ last.op = "get_perms" /\ returned /\ ~last.hit /\ ordinary
    /\ toSet(last.perms) = {"edit", "view"}
    /\ granted_to_user("edit", last.obj, user.id)
    /\ ~granted_to_user("view", last.obj, user.id)
    /\ \E grp \in Groups :
            member(user.id, grp) /\ granted_to_group("view", last.obj, grp)

\* C3: for an active, non-superuser user the list get_perms returns holds
\* each codename at most once.
C3_NoDuplicateCodenames ==
    (returned /\ ordinary) => no_duplicates(last.perms)

C5_SuperuserHasAll ==
    (superuser /\ last.op # "none" /\ last.outcome = "ok") =>
        /\ (last.op = "has_perm"
                /\ codename_of(last.perm) \in defined(last.obj.content_type))
            => last.result
        /\ last.op = "get_perms"
            => toSet(last.perms) = defined(last.obj.content_type)

\* C5 amended: for an active superuser has_perm is true, and a get_perms
\* that misses the cache returns exactly the codenames defined for the
\* object's type, each once, whatever is granted.
C5_ActiveSuperuserHasAll ==
    (superuser /\ user.is_active) =>
        /\ last.op = "has_perm" => (last.outcome = "ok" /\ last.result)
        /\ (last.op = "get_perms" /\ returned /\ ~last.hit) =>
                /\ toSet(last.perms) = defined(last.obj.content_type)
                /\ no_duplicates(last.perms)

\* C5 witness: an active superuser with nothing granted to anyone gets both
\* codenames of type t1.
C5_Witness ==
    /\ superuser /\ user.is_active
    /\ last.op = "get_perms" /\ returned /\ ~last.hit
    /\ guardian_userobjectpermission = {}
    /\ guardian_groupobjectpermission = {}
    /\ toSet(last.perms) = {"view", "edit"}

\* C6: while the bound user is inactive has_perm returns false, whatever
\* the grants, the superuser flag and the cache are.
C6_InactiveHasNoPerm ==
    (inactive /\ last.op = "has_perm") =>
        (last.outcome = "ok" /\ ~last.result)

\* C6 witness: an inactive superuser is refused a codename that the cache
\* holds for the object.
C6_Witness ==
    /\ inactive /\ superuser /\ last.op = "has_perm"
    /\ key_of(last.obj) \in DOMAIN obj_perms_cache
    /\ contains(obj_perms_cache[key_of(last.obj)], codename_of(last.perm))

\* C7 as claimed: while the bound user is inactive get_perms returns the
\* empty list in every state.
C7_InactiveGetsNothing ==
    (inactive /\ last.op = "get_perms") =>
        (last.outcome = "ok" /\ last.perms = EmptyList)

\* C7 amended: while the bound user is inactive get_perms returns the empty
\* list when the object's key is not cached, and the cached list when it is.
C7_InactiveGetsNothingUnlessCached ==
    (inactive /\ last.op = "get_perms") =>
        /\ last.outcome = "ok"
        /\ last.hit = (key_of(last.obj) \in DOMAIN obj_perms_cache)
        /\ last.perms = IF last.hit THEN obj_perms_cache[key_of(last.obj)]
                                    ELSE EmptyList

\* C7 witness: an inactive user is served a cached list that is not empty.
C7_Witness ==
    /\ inactive /\ last.op = "get_perms" /\ last.hit
    /\ last.perms # EmptyList

\* C8: for a checker bound to a group and no user, a get_perms that misses
\* the cache returns exactly the codenames of the object's type granted to
\* that group on the object, each once, and has_perm is true exactly for
\* those.
C8_GroupPermsAreGrants ==
    (group_only /\ returned /\ ~last.hit) =>
        /\ toSet(last.perms) = group_holds(last.obj, group)
        /\ no_duplicates(last.perms)
        /\ last.op = "has_perm" =>
                (last.result <=>
                    codename_of(last.perm) \in group_holds(last.obj, group))

\* C8 witness: the group holds a permission on the object, a user or another
\* group holds something else there, and only the group's own is returned.
C8_Witness ==
    /\ group_only /\ last.op = "get_perms" /\ returned /\ ~last.hit
    /\ last.perms # EmptyList
    /\ \E c \in defined(last.obj.content_type) :
            /\ ~contains(last.perms, c)
            /\ \/ \E u \in Users : granted_to_user(c, last.obj, u)
               \/ \E grp \in Groups : granted_to_group(c, last.obj, grp)

\* C9: a checker with neither user nor group gets the empty list from
\* get_perms and false from has_perm, whatever users and groups hold.
C9_AnonymousHasNothing ==
    (anonymous /\ last.op # "none" /\ last.outcome = "ok") =>
        /\ last.perms = EmptyList
        /\ ~last.result
        /\ \A k \in DOMAIN obj_perms_cache : obj_perms_cache[k] = EmptyList

\* C9 witness: a user and a group both hold permissions on the object the
\* anonymous checker is asked about.
C9_Witness ==
    /\ anonymous /\ last.op = "has_perm" /\ last.outcome = "ok"
    /\ \E u \in Users : granted_to_user(codename_of(last.perm), last.obj, u)
    /\ \E grp \in Groups : granted_to_group(codename_of(last.perm), last.obj, grp)

\* C10: objects of different types with the same primary key have different
\* cache keys; a get_perms on one leaves every other entry of the cache as
\* it was, adds no entry but its own, and returns its own entry, or on a
\* miss what the identity holds on that very object.
C10_KeysApart ==
    [][(last'.called /\ last'.outcome = "ok") =>
        LET o == last'.obj
            k == key_of(o)
        IN  /\ \A o1, o2 \in Objects :
                    o1 # o2 => get_local_cache_key(o1) # get_local_cache_key(o2)
            /\ \A j \in DOMAIN obj_perms_cache \ {k} :
                    /\ j \in DOMAIN obj_perms_cache'
                    /\ obj_perms_cache'[j] = obj_perms_cache[j]
            /\ DOMAIN obj_perms_cache' \subseteq DOMAIN obj_perms_cache \cup {k}
            /\ toSet(last'.perms) =
                    IF k \in DOMAIN obj_perms_cache
                        THEN toSet(obj_perms_cache[k])
                        ELSE holds(o)
      ]_vars

\* C10 witness: both objects are cached with different lists and one of
\* them has just been served from the cache.
C10_Witness ==
    /\ last.op = "get_perms" /\ last.hit
    /\ DOMAIN obj_perms_cache = {key_of(o) : o \in Objects}
    /\ \E k \in DOMAIN obj_perms_cache :
            obj_perms_cache[k] # obj_perms_cache[key_of(last.obj)]

---------------------------------------------------------------------------
\* The prefixes put before a codename: one piece, two pieces, none.
Prefixes == {<<"app">>, <<"a", ".", "b">>, << >>}

\* The bare codenames asked for: defined for both types, for t1 only, for
\* neither.
Codenames == {"view", "edit", "delete"}

\* C11: in every state, for every prefix q, bare codename c and object O,
\* has_perm(q + "." + c, O) and has_perm(c, O) come out the same: the same
\* outcome, the same boolean, the same use of get_perms and the same cache
\* afterwards, whether the backend answers or raises.
C11_PrefixStripped ==
    \A q \in Prefixes, c \in Codenames, o \in scope.objects, db_ok \in BOOLEAN :
        has_perm(q \o <<".">> \o <<c>>, o, db_ok) = has_perm(<<c>>, o, db_ok)

\* C11 witness: has_perm("app.edit", O) has returned True to an identity
\* that is not a superuser, and has_perm("edit", O) returns True as well.
C11_Witness ==
    /\ last.op = "has_perm" /\ last.outcome = "ok"
    /\ last.perm = <<"app", ".", "edit">>
    /\ ~superuser
    /\ last.result
    /\ has_perm(<<"edit">>, last.obj, TRUE).result

---------------------------------------------------------------------------
\* C12: a get_perms(O) that misses the cache for an identity that is not an
\* inactive user, with the backend raising, ends in an error and leaves the
\* cache as it was; and whenever the latest call ended in an error, it had
\* queried the backend on a miss, nothing is cached for O's key, and a
\* get_perms(O) made now queries the backend again and returns what the
\* identity holds.
C12_FailureNotCached ==
    /\ \A o \in scope.objects :
            (key_of(o) \notin DOMAIN obj_perms_cache /\ ~inactive) =>
                /\ get_perms(o, FALSE).outcome = "error"
                /\ get_perms(o, FALSE).queried
                /\ get_perms(o, FALSE).cache = obj_perms_cache
    /\ last.outcome = "error" =>
            /\ last.called /\ last.queried /\ ~last.hit
            /\ key_of(last.obj) \notin DOMAIN obj_perms_cache
            /\ get_perms(last.obj, TRUE).queried
            /\ get_perms(last.obj, TRUE).outcome = "ok"
            /\ toSet(get_perms(last.obj, TRUE).perms) = holds(last.obj)

\* C12 witness: get_perms(O) has just failed for an identity that holds a
\* permission on O, and the cache is still empty.
C12_Witness ==
    /\ last.op = "get_perms" /\ last.outcome = "error"
    /\ holds(last.obj) # {}
    /\ obj_perms_cache = EmptyList

---------------------------------------------------------------------------
\* C13: a step that is a has_perm or get_perms call leaves the permission
\* definitions, the user grants, the group grants and the group memberships
\* as they were, and the identity with them; of the checker's own state only
\* the cache may differ afterwards.
C13_CallsOnlyRead ==
    [][last'.op # "none" =>
            /\ auth_permission' = auth_permission
            /\ guardian_userobjectpermission' = guardian_userobjectpermission
            /\ guardian_groupobjectpermission' = guardian_groupobjectpermission
            /\ auth_user_groups' = auth_user_groups
            /\ user' = user
            /\ group' = group
      ]_vars

\* C13 witness: a get_perms has queried the backend and filled the cache
\* while both grant tables held rows and u1 was a member of g1.
C13_Witness ==
    /\ last.op = "get_perms" /\ last.outcome = "ok" /\ last.queried
    /\ key_of(last.obj) \in DOMAIN obj_perms_cache
    /\ guardian_userobjectpermission # {}
    /\ guardian_groupobjectpermission # {}
    /\ member("u1", "g1")

---------------------------------------------------------------------------
\* C14: the caches of two checkers for one identity are apart.  A has_perm
\* or get_perms call on one checker leaves the cache of the other as it
\* was.  The checker constructed second starts with an empty cache while
\* the first keeps its own, so that unless the user is inactive a get_perms
\* on the new checker queries the backend and returns what the identity
\* holds at that time.  And a checker with an entry for an object returns
\* that entry, whatever the backend and the other checker's cache hold.
C14_CachesApart ==
    [][/\ last'.op # "none" => aside' = aside
       /\ (~aside.made /\ aside'.made) =>
            /\ aside'.cache = obj_perms_cache
            /\ obj_perms_cache' = EmptyList
            /\ \A o \in scope.objects :
                    ~inactive =>
                        /\ get_perms(o, TRUE)'.queried
                        /\ toSet(get_perms(o, TRUE)'.perms) = holds(o)'
       /\ \A o \in scope.objects :
            key_of(o) \in DOMAIN obj_perms_cache' =>
                get_perms(o, TRUE)'.perms = obj_perms_cache'[key_of(o)]
      ]_vars

\* C14 witness: the first checker has just returned a cached list that is
\* not what the identity holds, after the second checker, constructed
\* later, has cached what the identity holds.
C14_Witness ==
    /\ aside.made /\ instance = "first"
    /\ last.op = "get_perms" /\ last.outcome = "ok" /\ last.hit
    /\ toSet(last.perms) # holds(last.obj)
    /\ key_of(last.obj) \in DOMAIN aside.cache
    /\ toSet(aside.cache[key_of(last.obj)]) = holds(last.obj)
    /\ holds(last.obj) # {}

---------------------------------------------------------------------------
\* C15: a get_perms(O) made while the cache holds an entry for O's key
\* returns that entry, queries nothing and leaves the cache as it was,
\* whatever is_active and is_superuser of the bound user are at the time of
\* the call.
C15_HitIgnoresFlags ==
    [][(last'.op = "get_perms" /\ key_of(last'.obj) \in DOMAIN obj_perms_cache) =>
            /\ last'.outcome = "ok"
            /\ last'.hit
            /\ ~last'.queried
            /\ last'.perms = obj_perms_cache[key_of(last'.obj)]
            /\ obj_perms_cache' = obj_perms_cache
      ]_vars

\* C15 witness: an active superuser has just been given a cached list that
\* lacks a permission defined for the object's type: the list was cached
\* before the user became a superuser.
C15_Witness ==
    /\ superuser /\ user.is_active
    /\ last.op = "get_perms" /\ last.outcome = "ok" /\ last.hit
    /\ toSet(last.perms) # {}
    /\ defined(last.obj.content_type) \ toSet(last.perms) # {}

---------------------------------------------------------------------------
\* C16: a has_perm made while the bound user is inactive or a superuser
\* returns without running get_perms: no backend query is issued, nothing
\* is raised, and the cache is afterwards exactly what it was.
C16_ShortCutsLeaveCache ==
    [][(last'.op = "has_perm" /\ (inactive \/ superuser)) =>
            /\ last'.outcome = "ok"
            /\ ~last'.called
            /\ ~last'.queried
            /\ obj_perms_cache' = obj_perms_cache
      ]_vars

\* C16 witness: has_perm has just answered an active superuser with
\* nothing cached, and the cache is still empty.
C16_Witness ==
    /\ superuser /\ user.is_active
    /\ last.op = "has_perm" /\ last.result
    /\ obj_perms_cache = EmptyList
    /\ guardian_userobjectpermission # {}

---------------------------------------------------------------------------
\* C17: for a bound user who is both inactive and a superuser the inactive
\* test comes first: has_perm returns False, and a get_perms that misses
\* the cache returns the empty list without a backend query.
C17_InactiveBeforeSuperuser ==
    (inactive /\ superuser) =>
        /\ last.op = "has_perm" =>
                last.outcome = "ok" /\ ~last.result /\ ~last.called
        /\ (last.op = "get_perms" /\ ~last.hit) =>
                /\ last.outcome = "ok"
                /\ last.perms = EmptyList
                /\ ~last.queried
                /\ key_of(last.obj) \notin DOMAIN obj_perms_cache

\* C17 witness: an inactive superuser has just called get_perms on an
\* object that is not cached, on which grants to the user exist.
C17_Witness ==
    /\ inactive /\ superuser
    /\ last.op = "get_perms" /\ ~last.hit
    /\ user_holds(last.obj, user.id) # {}
    /\ defined(last.obj.content_type) # {}

---------------------------------------------------------------------------
\* C18: with the calls on a checker made one at a time, every step leaves
\* each entry of the cache in place with the value it had; and a step after
\* which the cache has another set of keys is a get_perms (called directly
\* or by has_perm) that missed the cache, queried the backend and returned
\* without error, the one key added being that of its object.
C18_CacheOnlyGrows ==
    [][/\ \A k \in DOMAIN obj_perms_cache :
            /\ k \in DOMAIN obj_perms_cache'
            /\ obj_perms_cache'[k] = obj_perms_cache[k]
       /\ DOMAIN obj_perms_cache' # DOMAIN obj_perms_cache =>
            /\ last'.called /\ last'.outcome = "ok"
            /\ ~last'.hit /\ last'.queried
            /\ DOMAIN obj_perms_cache' =
                    DOMAIN obj_perms_cache \cup {key_of(last'.obj)}
      ]_vars

\* C18 witness: has_perm has just been answered from an empty list cached
\* earlier, which is still in the cache though the identity now holds a
\* permission on the object.
C18_Witness ==
    /\ last.op = "has_perm" /\ last.called /\ last.hit
    /\ obj_perms_cache[key_of(last.obj)] = EmptyList
    /\ holds(last.obj) # {}

---------------------------------------------------------------------------
\* C19: in every state, for an identity that is not a bound user who is
\* inactive or a superuser, has_perm(p, O) returns True exactly when the
\* bare codename of p is in the list get_perms(O) returns on the same
\* checker in that state, for bare and for prefixed p; the same holds of the
\* has_perm just made and the get_perms made right after it.  For an active
\* superuser has_perm returns True for every codename, among them one that
\* is not in the list get_perms(O) returns.
C19_HasPermIsMembership ==
    /\ (~inactive /\ ~superuser) =>
            /\ \A o \in scope.objects, c \in Codenames :
                    /\ has_perm(<<c>>, o, TRUE).result
                            = contains(get_perms(o, TRUE).perms, c)
                    /\ has_perm(<<"app", ".", c>>, o, TRUE).result
                            = contains(get_perms(o, TRUE).perms, c)
            /\ (last.op = "has_perm" /\ last.outcome = "ok") =>
                    last.result = contains(get_perms(last.obj, TRUE).perms,
                                           codename_of(last.perm))
    /\ (superuser /\ user.is_active) =>
            \A o \in scope.objects :
                /\ \A c \in Codenames : has_perm(<<c>>, o, TRUE).result
                /\ \E c \in Codenames :
                        ~contains(get_perms(o, TRUE).perms, c)

\* C19 witness: an active superuser has just been answered True by
\* has_perm for a codename that is not defined for the object's type and is
\* not in the list get_perms returns.  (The witness of C11 is a has_perm
\* answered True from the list of get_perms.)
C19_Witness ==
    /\ last.op = "has_perm" /\ last.outcome = "ok" /\ last.result
    /\ superuser /\ user.is_active
    /\ codename_of(last.perm) \notin defined(last.obj.content_type)
    /\ ~contains(get_perms(last.obj, TRUE).perms, codename_of(last.perm))

---------------------------------------------------------------------------
\* The threads that have assigned to the cache.
stored == {t \in Threads : threads[t].queried
                            /\ threads[t].pc \in {"return", "done"}}

\* C20: with two threads in get_perms(O) on one checker, a thread that tests
\* the cache before the other has stored queries the backend as well, so
\* both may query for one key; the entry for O's key is always the list of
\* the thread that stored last, and a thread that has returned has
\* returned the list one of the threads stored.
C20_LaterWriteWins ==
    \A o \in scope.objects :
        /\ writer # None =>
                /\ writer \in stored
                /\ key_of(o) \in DOMAIN obj_perms_cache
                /\ obj_perms_cache[key_of(o)] = threads[writer].perms
        /\ stored # {} => writer # None
        /\ \A t \in Threads :
                (threads[t].pc = "done" /\ ~inactive) =>
                    \E t2 \in stored : threads[t].ret = threads[t2].perms

\* C20 witness: both threads found no entry and queried the backend for the
\* same key, the grants changed between their queries, they returned
\* different lists, and the cache holds the list of the one that stored
\* last.
C20_Witness ==
    /\ \A t \in Threads : threads[t].pc = "done" /\ threads[t].queried
    /\ threads["A"].perms # threads["B"].perms
    /\ threads["A"].ret = threads["A"].perms
    /\ threads["B"].ret = threads["B"].perms
    /\ writer = "B"
    /\ \A o \in scope.objects :
            obj_perms_cache[key_of(o)] = threads["B"].ret

=============================================================================
